---------------------------- MODULE Spec2Model ----------------------------
(***************************************************************************)
(* A state-machine model of niftynet/io/image_reader.py: the ImageReader   *)
(* layer (manifest merging, field resolution, catalog construction and the *)
(* shuffled / sequential access of layer_op).                              *)
(*                                                                         *)
(* Python values are encoded as follows.                                   *)
(*   None / a value v     <<>> / <<v>>          (None, Some, Val)          *)
(*   tuple, list          sequence                                         *)
(*   dict                 [keys |-> iteration order, val |-> function]     *)
(*   DataFrame            [columns |-> modality columns in order,          *)
(*                         rows |-> sequence of                            *)
(*                           [subject_id |-> s, cells |-> column -> path]] *)
(*   a raised exception   a result record whose exc field names the class  *)
(*   an image file        the token <<modality, row>> its manifest lists   *)
(*                        as its path; header gives its dtype and size     *)
(*                                                                         *)
(* The inputs are taken as the reader's callers give them: a csv file that *)
(* exists has at least one row (pandas.read_csv rejects an empty file      *)
(* before anything is merged), task_param carries the key 'name', and no   *)
(* output field is called 'name'.                                          *)
(***************************************************************************)
EXTENDS Integers, Sequences, FiniteSets, TLC

VARIABLES
    files,           \* the file system: csv file name -> None | Some(rows)
    _file_list,      \* self._file_list
    _output_fields,  \* self._output_fields (behind the output_fields property)
    _input_sources,  \* self._input_sources
    _shapes,         \* self._shapes
    _dtypes,         \* self._dtypes
    output_list,     \* self.output_list
    current_id,      \* self.current_id
    ret,             \* outcome of the last completed call on the reader
    seq_log,         \* history: results of the sequential calls since the
                     \* cursor was last reset
    pc,              \* per caller thread: position inside layer_op
    idx,             \* per caller thread: the local variable idx
    n_calls          \* history: layer_op calls begun by concurrent callers

reader == <<_file_list, _output_fields, _input_sources, _shapes, _dtypes,
            output_list, current_id>>
threads == <<pc, idx, n_calls>>
vars == <<files, reader, ret, seq_log, threads>>

---------------------------------------------------------------------------
(* Bounds of the model *)

\* longest manifest file, in rows
MaxRows == 2
\* sequential calls explored beyond the end of the catalog
MaxExtra == 2
\* layer_op calls the concurrent callers make, all together
MaxCalls == 4

---------------------------------------------------------------------------
(* The threads that call the reader *)

Threads == {"t1", "t2", "t3"}

---------------------------------------------------------------------------
(* Python's None and optional values *)

None == <<>>
Some(v) == <<v>>
Val(o) == o[1]

\* a Python dict: its keys in iteration order and its values
Dict(keys, val) == [keys |-> keys, val |-> val]
Range(s) == {s[i] : i \in DOMAIN s}

Raise(e) == [exc |-> e, val |-> None]
Return(v) == [exc |-> "", val |-> Some(v)]

---------------------------------------------------------------------------
(* The configuration the reader is given *)

Modalities == {"T1", "T2", "T3"}
Subjects == {"s1", "s2"}

CsvFile == [m \in Modalities |-> m]

\* the per-modality section of data_param (csv_file, interp_order, pixdim,
\* axcodes); the three properties differ from one modality to the next
Section(m) ==
    [csv_file |-> CsvFile[m],
     interp_order |-> <<"interp_order", m>>,
     pixdim |-> <<"pixdim", m>>,
     axcodes |-> <<"axcodes", m>>]

\* the sequences without repetition over a set, up to a length
RECURSIVE Orderings(_, _)
Orderings(S, n) ==
    IF n = 0 THEN {<<>>}
    ELSE {<<>>} \cup
         UNION {{<<x>> \o u : u \in {v \in Orderings(S, n - 1) :
                                        \A i \in DOMAIN v : v[i] # x}} :
                x \in S}

\* data_param: a dict from modality name to its section, in any key order
DataParamOver(keys) == Dict(keys, [m \in Range(keys) |-> Section(m)])
DataParams(M) == {DataParamOver(k) : k \in Orderings(M, Cardinality(M))}

\* a manifest file: rows (subject identifier, path), at least one row; the
\* path written in row i of modality m's file is the token <<m, i>>
ManifestOf(m, sids) == [i \in DOMAIN sids |-> <<sids[i], <<m, i>>>>]
SubjectLists == UNION {[1..k -> Subjects] : k \in 1..MaxRows}

\* a file system over the modalities M: every csv file is absent or holds
\* a manifest (an empty choice of subjects stands for the absent file)
FileSystemOf(choice) ==
    [m \in Modalities |->
        IF m \notin DOMAIN choice \/ choice[m] = <<>> THEN None
        ELSE Some(ManifestOf(m, choice[m]))]
FileSystems(M) == {FileSystemOf(c) : c \in [M -> {<<>>} \cup SubjectLists]}

---------------------------------------------------------------------------
(* pandas: read_csv and merge, as _load_and_merge_csv_files uses them *)

\* pandas.read_csv(csv_file, header=None, names=['subject_id', modality])
read_csv(content, modality_name) ==
    [columns |-> <<modality_name>>,
     rows |-> [i \in DOMAIN content |->
                  [subject_id |-> content[i][1],
                   cells |-> (modality_name :> content[i][2])]]]

RECURSIVE merge_rows(_, _)
merge_rows(lrows, rrows) ==
    IF lrows = <<>> THEN <<>>
    ELSE LET l == Head(lrows)
             m == SelectSeq(rrows, LAMBDA r : r.subject_id = l.subject_id)
         IN [i \in DOMAIN m |->
                [subject_id |-> l.subject_id,
                 cells |-> l.cells @@ m[i].cells]]
            \o merge_rows(Tail(lrows), rrows)

\* merge by row position instead of by subject_id
merge_by_position(left, right) ==
    [columns |-> left.columns \o right.columns,
     rows |-> [i \in DOMAIN left.rows \cap DOMAIN right.rows |->
                  [subject_id |-> left.rows[i].subject_id,
                   cells |-> left.rows[i].cells @@ right.rows[i].cells]]]

\* pandas.merge(left, right, on='subject_id'): the inner join, in the order
\* of the left keys
merge(left, right) ==
    [columns |-> left.columns \o right.columns,
     rows |-> merge_rows(left.rows, right.rows)]

\* DataFrame.shape[0]
n_rows(df) == Len(df.rows)

\* size counting the columns only
size_of_a_row(df) == 1 + Len(df.columns)

\* DataFrame.size: the number of cells, the subject_id column included
size(df) == Len(df.rows) * (1 + Len(df.columns))

---------------------------------------------------------------------------
(* ImageReader._load_and_merge_csv_files *)

\* the body of the for loop, from the modality at position k on
RECURSIVE merge_loop(_, _, _, _)
merge_loop(fs, data_param, k, acc) ==
    IF k > Len(data_param.keys) THEN Return(acc)
    ELSE LET modality_name == data_param.keys[k]
             csv_file == data_param.val[modality_name].csv_file
         IN IF fs[csv_file] = None THEN Raise("IOError")
            ELSE LET csv_list == read_csv(Val(fs[csv_file]), modality_name)
                 IN IF acc = None
                    THEN merge_loop(fs, data_param, k + 1, Some(csv_list))
                    ELSE merge_loop(fs, data_param, k + 1,
                                    Some(merge(Val(acc), csv_list)))

\* _load_and_merge_csv_files passing over the modalities whose csv file is
\* missing instead of raising
_load_and_merge_existing_files(fs, data_param) ==
    LET present == SelectSeq(data_param.keys,
                             LAMBDA m : fs[data_param.val[m].csv_file] # None)
        looped == merge_loop(fs, Dict(present, data_param.val), 1, None)
        joined == Val(looped.val)
    IN IF joined = None THEN Raise("AttributeError")
       ELSE IF size(Val(joined)) = 0 THEN Raise("IOError")
       ELSE Return(Val(joined))

_load_and_merge_csv_files(fs, data_param) ==
    LET looped == merge_loop(fs, data_param, 1, None)
    IN IF looped.exc # "" THEN looped
       ELSE LET joined == Val(looped.val)
            IN IF joined = None THEN Raise("AttributeError")
               ELSE IF size(Val(joined)) = 0 THEN Raise("IOError")
               ELSE Return(Val(joined))

---------------------------------------------------------------------------
(* The application's field specification *)

Apps == {"net_segmentation.py", "net_gan.py", "net_classification.py"}

\* SUPPORTED_INPUT of the application module the name selects (lines 93-100
\* import it for these two names and leave it unbound for any other)
SUPPORTED_INPUT(app_type) ==
    CASE app_type = "net_segmentation.py" -> {"image", "label"}
      [] app_type = "net_gan.py" -> {"image", "conditioning"}

\* the if / elif of initialise_reader binds SUPPORTED_INPUT for these names
\* only
binds_SUPPORTED_INPUT(app_type) ==
    app_type \in {"net_segmentation.py", "net_gan.py"}

\* make_input_tuple(fields, basestring) on a list or tuple of names: the
\* tuple of the same names in the same order
make_input_tuple(fields) == [i \in 1..Len(fields) |-> fields[i]]
TupleOfSet(S) == CHOOSE t \in [1..Cardinality(S) -> S] : Range(t) = S

\* task_param: 'name' and, for every field of the configuration, its tuple
\* of modality names (the empty tuple for a field that is switched off)
FieldOrder == <<"image", "label", "extra">>
FieldNames == Range(FieldOrder)
FieldSpecs ==
    {[image |-> <<"T1">>, label |-> <<>>, extra |-> <<>>],
     [image |-> <<"T2", "T1">>, label |-> <<"T1">>, extra |-> <<"T1">>]}
TaskParams ==
    {[name |-> a, keys |-> FieldOrder, val |-> v] :
        a \in Apps, v \in FieldSpecs}

\* the output_fields a caller may give the constructor
ConstructorFields == {<<>>, <<"label", "extra">>}

---------------------------------------------------------------------------
(* Image objects *)

\* ImageFactory.create_instance(**image_properties): the image object is
\* its properties
create_instance(image_properties) == image_properties

\* image.get_data(): the volumes the image's files decode to
get_data(image) == [decoded |-> image.file_path]

\* a numpy dtype: its name and its kind character
np_dtype(name, kind) == [name |-> name, kind |-> kind]

\* the element type and the spatial size found in the header of the image
\* file at a path; files differ from one modality and one row to the next
header(path) ==
    LET m == path[1]
        odd == (path[2] % 2 = 1)
    IN CASE m = "T1" -> IF odd THEN [dtype |-> np_dtype("float32", "f"),
                                      spatial |-> <<8, 8>>]
                        ELSE [dtype |-> np_dtype("int16", "i"),
                              spatial |-> <<8, 4>>]
         [] m = "T2" -> IF odd THEN [dtype |-> np_dtype("bool", "b"),
                                      spatial |-> <<4, 4>>]
                        ELSE [dtype |-> np_dtype("float32", "f"),
                              spatial |-> <<8, 8>>]
         [] m = "T3" -> IF odd THEN [dtype |-> np_dtype("uint8", "u"),
                                      spatial |-> <<2, 2>>]
                        ELSE [dtype |-> np_dtype("int16", "i"),
                              spatial |-> <<2, 4>>]

\* image.dtype: the dtype of each of the image's files, in their order
dtype(image) == [i \in DOMAIN image.file_path |->
                    header(image.file_path[i]).dtype]

\* get_data().shape: the spatial size of the first file, then the number of
\* files stacked as modalities
shape(data) == header(data.decoded[1]).spatial \o <<Len(data.decoded)>>

---------------------------------------------------------------------------
(* infer_tf_dtypes *)

NP_TF_DTYPES == [i |-> "tf.int32", u |-> "tf.int32", b |-> "tf.int32",
                 f |-> "tf.float32"]

\* NP_TF_DTYPES.get(kind, None)
NP_TF_DTYPES_get(kind) ==
    IF kind \in DOMAIN NP_TF_DTYPES THEN Some(NP_TF_DTYPES[kind]) ELSE None

\* infer_tf_dtypes promoting to float only when a floating code is in the
\* mix, and keeping an all-integer mix an integer
infer_tf_dtypes_keeping_integers(image_object) ==
    LET uniq_np_dtype == Range(dtype(image_object))
    IN IF Cardinality(uniq_np_dtype) > 1
       THEN IF \E d \in uniq_np_dtype : d.kind = "f"
            THEN NP_TF_DTYPES_get("f")
            ELSE NP_TF_DTYPES_get("i")
       ELSE NP_TF_DTYPES_get((CHOOSE d \in uniq_np_dtype : TRUE).kind)

infer_tf_dtypes(image_object) ==
    LET uniq_np_dtype == Range(dtype(image_object))
    IN IF Cardinality(uniq_np_dtype) > 1
       THEN NP_TF_DTYPES_get("f")
       ELSE NP_TF_DTYPES_get((CHOOSE d \in uniq_np_dtype : TRUE).kind)

---------------------------------------------------------------------------
(* ImageReader._create_image and ImageReader._filename_to_image_list *)

\* the input_sources property letting an empty dict through
input_sources_unguarded(sources) ==
    IF sources = None THEN Raise("RuntimeError") ELSE Return(Val(sources))

\* the input_sources property
input_sources(sources) ==
    IF sources = None \/ DOMAIN Val(sources) = {} THEN Raise("RuntimeError")
    ELSE Return(Val(sources))

\* _create_image passing over the modalities it does not find, instead of
\* raising
_create_image_skipping(file_list, row_id, modalities, data_param) ==
    LET found == SelectSeq(modalities,
                           LAMBDA mod : /\ mod \in Range(file_list.columns)
                                        /\ mod \in Range(data_param.keys))
    IN Return(create_instance(
         [file_path |-> [i \in DOMAIN found |->
                           file_list.rows[row_id + 1].cells[found[i]]],
          name |-> modalities,
          interp_order |-> [i \in DOMAIN found |->
                              data_param.val[found[i]].interp_order],
          output_pixdim |-> [i \in DOMAIN found |->
                               data_param.val[found[i]].pixdim],
          output_axcodes |-> [i \in DOMAIN found |->
                                data_param.val[found[i]].axcodes]]))

_create_image(file_list, row_id, modalities, data_param) ==
    IF \E i \in DOMAIN modalities :
          \/ modalities[i] \notin Range(file_list.columns)
          \/ modalities[i] \notin Range(data_param.keys)
    THEN Raise("KeyError")
    ELSE Return(create_instance(
           [file_path |-> [i \in DOMAIN modalities |->
                             file_list.rows[row_id + 1].cells[modalities[i]]],
            name |-> modalities,
            interp_order |-> [i \in DOMAIN modalities |->
                                data_param.val[modalities[i]].interp_order],
            output_pixdim |-> [i \in DOMAIN modalities |->
                                 data_param.val[modalities[i]].pixdim],
            output_axcodes |-> [i \in DOMAIN modalities |->
                                  data_param.val[modalities[i]].axcodes]]))

\* the for loop of _filename_to_image_list, from row row_id on
RECURSIVE image_list_loop(_, _, _, _, _)
image_list_loop(file_list, sources, data_param, row_id, volume_list) ==
    IF row_id >= n_rows(file_list) THEN Return(volume_list)
    ELSE LET src == input_sources(sources)
         IN IF src.exc # "" THEN src
            ELSE LET made == [field \in DOMAIN Val(src.val) |->
                                _create_image(file_list, row_id,
                                              Val(src.val)[field], data_param)]
                 IN IF \E field \in DOMAIN made : made[field].exc # ""
                    THEN Raise("KeyError")
                    ELSE image_list_loop(
                           file_list, sources, data_param, row_id + 1,
                           Append(volume_list,
                                  [field \in DOMAIN made |->
                                      Val(made[field].val)]))

\* _filename_to_image_list putting every new entry in front of the list
_filename_to_image_list_prepending(file_list, sources, data_param) ==
    LET built == image_list_loop(file_list, sources, data_param, 0, <<>>)
    IN IF built.exc # "" THEN built
       ELSE LET l == Val(built.val)
            IN Return([i \in DOMAIN l |-> l[Len(l) + 1 - i]])

_filename_to_image_list(file_list, sources, data_param) ==
    image_list_loop(file_list, sources, data_param, 0, <<>>)

---------------------------------------------------------------------------
(* ImageReader.initialise_reader *)

\* select_fields without the test task_param[field_name] != ()
select_fields_any_tuple(task_param, fields) ==
    SelectSeq(task_param.keys,
              LAMBDA field_name : field_name \in Range(fields))

\* the list comprehension of lines 104-107 over the keys of task_param; the
\* key 'name' is no output field and is filtered out
select_fields(task_param, fields) ==
    SelectSeq(task_param.keys,
              LAMBDA field_name : /\ field_name \in Range(fields)
                                  /\ task_param.val[field_name] # <<>>)

\* initialise_reader setting the cursor only when it is unset, so that a
\* reader in use keeps its position
initialise_reader_result_keeping_cursor(fs, data_param, task_param) ==
    LET now == [exc |-> "",
                _file_list |-> _file_list,
                _output_fields |-> _output_fields,
                _input_sources |-> _input_sources,
                output_list |-> output_list,
                current_id |-> current_id]
        app_type == task_param.name
        merged == _load_and_merge_csv_files(fs, data_param)
    IN IF merged.exc # "" THEN [now EXCEPT !.exc = merged.exc]
       ELSE
       LET loaded == [now EXCEPT !._file_list = merged.val]
       IN IF _output_fields = <<>> /\ ~binds_SUPPORTED_INPUT(app_type)
          THEN [loaded EXCEPT !.exc = "UnboundLocalError"]
          ELSE
          LET defaulted == IF _output_fields = <<>>
                           THEN make_input_tuple(
                                  TupleOfSet(SUPPORTED_INPUT(app_type)))
                           ELSE _output_fields
              fields == make_input_tuple(select_fields(task_param, defaulted))
              sources == Some([field \in Range(fields) |->
                                 task_param.val[field]])
              resolved == [loaded EXCEPT !._output_fields = fields,
                                         !._input_sources = sources]
              built == _filename_to_image_list(Val(merged.val), sources,
                                               data_param)
          IN IF built.exc # "" THEN [resolved EXCEPT !.exc = built.exc]
             ELSE [resolved EXCEPT !.output_list = built.val,
                                   !.current_id =
                                      IF current_id = None THEN Some(-1)
                                      ELSE current_id]

\* the fields of the reader after the call, and the exception it raised
initialise_reader_result(fs, data_param, task_param) ==
    LET now == [exc |-> "",
                _file_list |-> _file_list,
                _output_fields |-> _output_fields,
                _input_sources |-> _input_sources,
                output_list |-> output_list,
                current_id |-> current_id]
        app_type == task_param.name
        merged == _load_and_merge_csv_files(fs, data_param)
    IN IF merged.exc # "" THEN [now EXCEPT !.exc = merged.exc]
       ELSE
       LET loaded == [now EXCEPT !._file_list = merged.val]
       IN IF _output_fields = <<>> /\ ~binds_SUPPORTED_INPUT(app_type)
          THEN [loaded EXCEPT !.exc = "UnboundLocalError"]
          ELSE
          LET defaulted == IF _output_fields = <<>>
                           THEN make_input_tuple(
                                  TupleOfSet(SUPPORTED_INPUT(app_type)))
                           ELSE _output_fields
              fields == make_input_tuple(select_fields(task_param, defaulted))
              sources == Some([field \in Range(fields) |->
                                 task_param.val[field]])
              resolved == [loaded EXCEPT !._output_fields = fields,
                                         !._input_sources = sources]
              built == _filename_to_image_list(Val(merged.val), sources,
                                               data_param)
          IN IF built.exc # "" THEN [resolved EXCEPT !.exc = built.exc]
             ELSE [resolved EXCEPT !.output_list = built.val,
                                   !.current_id = Some(-1)]

initialise_reader(data_param, task_param) ==
    LET r == initialise_reader_result(files, data_param, task_param)
    IN /\ \A t \in Threads : pc[t] = "idle"
       /\ _file_list' = r._file_list
       /\ _output_fields' = r._output_fields
       /\ _input_sources' = r._input_sources
       /\ output_list' = r.output_list
       /\ current_id' = r.current_id
       /\ ret' = [op |-> "initialise_reader", exc |-> r.exc,
                  data_param |-> data_param, task_param |-> task_param]
       /\ seq_log' = IF r.exc = "" THEN <<>> ELSE seq_log
       /\ UNCHANGED <<files, _shapes, _dtypes, threads>>

---------------------------------------------------------------------------
(* The properties shapes, dtypes and input_sources *)

\* Python's truth value of an optional list or dict: None and the empty
\* container are false
truthy(o) == IF o = None THEN FALSE ELSE DOMAIN Val(o) # {}

\* random_image taking the last entry of the catalog
random_image_last(catalog) == catalog[Len(catalog)]

\* lines 50 and 61: random_image = self.output_list[0]
random_image(catalog) == catalog[1]

\* every output field is a key of the sampled entry
fields_in(image) == \A field \in Range(_output_fields) : field \in DOMAIN image

\* lines 51-52: the dict comprehension over self.output_fields
sample_shapes(image) ==
    IF ~fields_in(image) THEN Raise("KeyError")
    ELSE Return([field \in Range(_output_fields) |->
                    shape(get_data(image[field]))])

\* lines 62-63: the dict comprehension over self.output_fields
sample_dtypes(image) ==
    IF ~fields_in(image) THEN Raise("KeyError")
    ELSE Return([field \in Range(_output_fields) |->
                    infer_tf_dtypes(image[field])])

\* a memoized property: the exception raised, the value returned and the
\* memo field after the call
memoized(memo, sampled) ==
    IF ~truthy(output_list)
    THEN [exc |-> "RuntimeError", val |-> None, memo |-> memo]
    ELSE IF truthy(memo)
    THEN [exc |-> "", val |-> memo, memo |-> memo]
    ELSE IF sampled.exc # ""
    THEN [exc |-> sampled.exc, val |-> None, memo |-> memo]
    ELSE [exc |-> "", val |-> sampled.val, memo |-> sampled.val]

\* the property called from outside the reader
query(op, r) ==
    /\ \A t \in Threads : pc[t] = "idle"
    /\ ret' = [op |-> op, exc |-> r.exc, val |-> r.val]
    /\ UNCHANGED <<files, _file_list, _output_fields, _input_sources,
                   output_list, current_id, seq_log, threads>>

shapes ==
    LET r == memoized(_shapes,
                      sample_shapes(random_image(Val(output_list))))
    IN query("shapes", r) /\ _shapes' = r.memo /\ UNCHANGED _dtypes

dtypes ==
    LET r == memoized(_dtypes,
                      sample_dtypes(random_image(Val(output_list))))
    IN query("dtypes", r) /\ _dtypes' = r.memo /\ UNCHANGED _shapes

get_input_sources ==
    /\ query("input_sources", input_sources(_input_sources))
    /\ UNCHANGED <<_shapes, _dtypes>>

---------------------------------------------------------------------------
(* The reader as ImageReader.__init__ leaves it *)

Constructed(output_fields) ==
    /\ _file_list = None
    /\ _output_fields = make_input_tuple(output_fields)
    /\ _input_sources = None
    /\ _shapes = None
    /\ _dtypes = None
    /\ output_list = None
    /\ current_id = None
    /\ ret = [op |-> "__init__", exc |-> ""]
    /\ seq_log = <<>>
    /\ pc = [t \in Threads |-> "idle"]
    /\ idx = [t \in Threads |-> None]
    /\ n_calls = 0

---------------------------------------------------------------------------
(* ImageReader.layer_op, one thread switch point at a time *)

\* a call enters layer_op: line 122
begin(t, shuffle) ==
    /\ pc[t] = "idle"
    /\ pc' = [pc EXCEPT ![t] = IF shuffle THEN "draw" ELSE "read"]
    /\ idx' = [idx EXCEPT ![t] = None]

layer_op_raises(t, shuffle, e) ==
    /\ ret' = [op |-> "layer_op", shuffle |-> shuffle,
               exc |-> e, idx |-> None, data |-> None]
    /\ pc' = [pc EXCEPT ![t] = "idle"]
    /\ UNCHANGED idx

\* draw with the cursor moved to the index drawn, as if the shuffled branch
\* shared the cursor with the sequential one
draw_moving_cursor(t) ==
    /\ pc[t] = "draw"
    /\ output_list # None
    /\ \E i \in 0..(Len(Val(output_list)) - 1) :
          /\ idx' = [idx EXCEPT ![t] = Some(i)]
          /\ current_id' = Some(i)
    /\ pc' = [pc EXCEPT ![t] = "fetch"]
    /\ UNCHANGED <<files, _file_list, _output_fields, _input_sources,
                   _shapes, _dtypes, output_list, ret, seq_log, n_calls>>

\* draw with the upper end of the range included, randint(len + 1)
draw_one_past_the_end(t) ==
    /\ pc[t] = "draw"
    /\ output_list # None
    /\ \E i \in 0..Len(Val(output_list)) :
          idx' = [idx EXCEPT ![t] = Some(i)]
    /\ pc' = [pc EXCEPT ![t] = "fetch"]
    /\ UNCHANGED <<files, reader, ret, seq_log, n_calls>>

\* draw answering a reader without a catalog with the sentinel pair
draw_sentinel_when_unset(t) ==
    /\ pc[t] = "draw"
    /\ IF output_list = None
       THEN /\ ret' = [op |-> "layer_op", shuffle |-> TRUE, exc |-> "",
                       idx |-> None, data |-> None]
            /\ pc' = [pc EXCEPT ![t] = "idle"]
            /\ UNCHANGED idx
       ELSE /\ \E i \in 0..(Len(Val(output_list)) - 1) :
                  idx' = [idx EXCEPT ![t] = Some(i)]
            /\ pc' = [pc EXCEPT ![t] = "fetch"]
            /\ UNCHANGED ret
    /\ UNCHANGED <<files, reader, seq_log, n_calls>>

\* line 125: idx = np.random.randint(len(self.output_list))
draw(t) ==
    /\ pc[t] = "draw"
    /\ IF output_list = None THEN layer_op_raises(t, TRUE, "TypeError")
       ELSE IF Len(Val(output_list)) = 0
       THEN layer_op_raises(t, TRUE, "ValueError")
       ELSE /\ \E i \in 0..(Len(Val(output_list)) - 1) :
                  idx' = [idx EXCEPT ![t] = Some(i)]
            /\ pc' = [pc EXCEPT ![t] = "fetch"]
            /\ UNCHANGED ret
    /\ UNCHANGED <<files, reader, seq_log, n_calls>>

\* read_cursor with the cursor advanced by two
read_cursor_by_two(t) ==
    /\ pc[t] = "read"
    /\ current_id # None
    /\ idx' = [idx EXCEPT ![t] = Some(Val(current_id) + 2)]
    /\ pc' = [pc EXCEPT ![t] = "write"]
    /\ UNCHANGED <<files, reader, ret, seq_log, n_calls>>

\* line 129: idx = self.current_id + 1
read_cursor(t) ==
    /\ pc[t] = "read"
    /\ IF current_id = None THEN layer_op_raises(t, FALSE, "TypeError")
       ELSE /\ idx' = [idx EXCEPT ![t] = Some(Val(current_id) + 1)]
            /\ pc' = [pc EXCEPT ![t] = "write"]
            /\ UNCHANGED ret
    /\ UNCHANGED <<files, reader, seq_log, n_calls>>

\* write_cursor starting over once the index has run off the catalog
write_cursor_wrapping(t) ==
    /\ pc[t] = "write"
    /\ current_id' = IF Val(idx[t]) >= Len(Val(output_list))
                      THEN Some(-1) ELSE idx[t]
    /\ pc' = [pc EXCEPT ![t] = "test"]
    /\ UNCHANGED <<files, _file_list, _output_fields, _input_sources,
                   _shapes, _dtypes, output_list, ret, seq_log, idx,
                   n_calls>>

\* line 130: self.current_id = idx
write_cursor(t) ==
    /\ pc[t] = "write"
    /\ current_id' = idx[t]
    /\ pc' = [pc EXCEPT ![t] = "test"]
    /\ UNCHANGED <<files, _file_list, _output_fields, _input_sources,
                   _shapes, _dtypes, output_list, ret, seq_log, idx,
                   n_calls>>

\* output_image with the lower bound of line 132 written idx > 0
output_image_above_zero(shuffle, i) ==
    IF i > 0 /\ i < Len(Val(output_list))
    THEN Return(Some(Val(output_list)[i + 1]))
    ELSE IF shuffle THEN Raise("IndexError") ELSE Return(None)

\* lines 126 and 132-133: the local output_image once the index is chosen
output_image(shuffle, i) ==
    IF shuffle
    THEN IF i >= 0 /\ i < Len(Val(output_list))
         THEN Return(Some(Val(output_list)[i + 1]))
         ELSE Raise("IndexError")
    ELSE IF i >= 0 /\ i < Len(Val(output_list))
         THEN Return(Some(Val(output_list)[i + 1]))
         ELSE Return(None)

\* lines 135-140: the pair layer_op returns
returned(i, image) ==
    IF image # None /\ DOMAIN Val(image) # {}
    THEN [idx |-> Some(i),
          data |-> Some([field \in DOMAIN Val(image) |->
                           get_data(Val(image)[field])])]
    ELSE [idx |-> None, data |-> None]

\* lines 126 / 132-133 and 135-140: the entry is fetched and the call returns
finish(t) ==
    /\ pc[t] \in {"fetch", "test"}
    /\ LET shuffle == (pc[t] = "fetch")
           image == output_image(shuffle, Val(idx[t]))
       IN IF image.exc # ""
          THEN layer_op_raises(t, shuffle, image.exc) /\ UNCHANGED seq_log
          ELSE LET out == returned(Val(idx[t]), Val(image.val))
               IN /\ ret' = [op |-> "layer_op", shuffle |-> shuffle,
                             exc |-> ""] @@ out
                  /\ seq_log' = IF shuffle THEN seq_log
                                ELSE Append(seq_log, [thread |-> t] @@ out)
                  /\ pc' = [pc EXCEPT ![t] = "idle"]
                  /\ UNCHANGED idx
    /\ UNCHANGED <<files, reader, n_calls>>

step(t) == draw(t) \/ read_cursor(t) \/ write_cursor(t) \/ finish(t)

---------------------------------------------------------------------------
(* The static method called on its own, over every file system *)

load_and_merge_call(data_param) ==
    /\ ret.op = "__init__"
    /\ ret' = [op |-> "_load_and_merge_csv_files", data_param |-> data_param]
              @@ _load_and_merge_csv_files(files, data_param)
    /\ UNCHANGED <<files, reader, seq_log, threads>>

\* every file system over the three modalities, and every data_param over
\* them in every key order
MergeInit == files \in FileSystems(Modalities) /\ Constructed(<<>>)
MergeNext == \E data_param \in DataParams(Modalities) :
                 load_and_merge_call(data_param)
MergeSpec == MergeInit /\ [][MergeNext]_vars

---------------------------------------------------------------------------
(* One reader used by one thread: every call returns before the next *)

Main == "t1"

\* the file systems the reader is run over: manifests for T1 and T2
SubjectRun(k) == [i \in 1..k |-> IF i % 2 = 1 THEN "s1" ELSE "s2"]
ReaderFiles ==
    {FileSystemOf([T1 |-> SubjectRun(k), T2 |-> c]) :
        k \in 1..MaxRows, c \in {<<>>, <<"s2">>}}

\* the data_param the reader is initialised with
ReaderDataParams == {DataParamOver(k) : k \in {<<"T1">>, <<"T2", "T1">>}}

call_layer_op(shuffle) ==
    /\ \A t \in Threads : pc[t] = "idle"
    /\ IF shuffle \/ current_id = None THEN TRUE
       ELSE Val(current_id) < Len(Val(output_list)) + MaxExtra
    /\ begin(Main, shuffle)
    /\ UNCHANGED <<files, reader, ret, seq_log, n_calls>>

Init == files \in ReaderFiles /\ \E f \in ConstructorFields : Constructed(f)
Next ==
    \/ \E data_param \in ReaderDataParams, task_param \in TaskParams :
          initialise_reader(data_param, task_param)
    \/ \E shuffle \in BOOLEAN : call_layer_op(shuffle)
    \/ step(Main)
Spec == Init /\ [][Next]_vars

---------------------------------------------------------------------------
(* One initialised reader called by several threads at once *)

RaceFiles == {FileSystemOf([T1 |-> SubjectRun(k)]) : k \in 1..MaxRows}
RaceDataParam == DataParamOver(<<"T1">>)
RaceTaskParam ==
    [name |-> "net_segmentation.py", keys |-> FieldOrder,
     val |-> [image |-> <<"T1">>, label |-> <<>>, extra |-> <<>>]]

\* the reader is initialised once, before any thread calls it
race_initialise == ret.op = "__init__" /\
                   initialise_reader(RaceDataParam, RaceTaskParam)

race_call(t, shuffle) ==
    /\ ret.op # "__init__"
    /\ n_calls < MaxCalls
    /\ begin(t, shuffle)
    /\ n_calls' = n_calls + 1
    /\ UNCHANGED <<files, reader, ret, seq_log>>

RaceInit == files \in RaceFiles /\ Constructed(<<>>)
RaceNext ==
    \/ race_initialise
    \/ \E t \in Threads, shuffle \in BOOLEAN : race_call(t, shuffle)
    \/ \E t \in Threads : step(t)
RaceSpec == RaceInit /\ [][RaceNext]_vars

---------------------------------------------------------------------------
(* One reader whose properties are queried between the other calls *)

\* the recognised application's task_param, over the reader's manifests
QueryTaskParams == {task_param \in TaskParams :
                       task_param.name = "net_segmentation.py"}
QueryFiles ==
    {FileSystemOf([T1 |-> SubjectRun(MaxRows), T2 |-> <<"s2">>])}

QueryInit == files \in QueryFiles /\ Constructed(<<>>)
QueryNext ==
    \/ \E data_param \in ReaderDataParams, task_param \in QueryTaskParams :
          initialise_reader(data_param, task_param)
    \/ \E shuffle \in BOOLEAN : call_layer_op(shuffle)
    \/ step(Main)
    \/ shapes
    \/ dtypes
    \/ get_input_sources
QuerySpec == QueryInit /\ [][QueryNext]_vars

---------------------------------------------------------------------------
(* The element types of the first catalog entry, over many image files *)

\* manifests for the three modalities listing the two subjects in either
\* order, so that the first catalog entry is made of different files
DtypeFiles ==
    {FileSystemOf([T1 |-> a, T2 |-> b, T3 |-> c]) :
        a, b, c \in {<<"s1", "s2">>, <<"s2", "s1">>}}
DtypeDataParam == DataParamOver(<<"T1", "T2", "T3">>)
\* fields of one, two and three modalities
FieldTuples == Orderings(Modalities, 3) \ {<<>>}
DtypeTaskParams ==
    {[name |-> "net_segmentation.py", keys |-> FieldOrder,
      val |-> [image |-> i, label |-> <<"T3">>, extra |-> <<>>]] :
        i \in FieldTuples}

\* the reader is initialised once and its properties are then read
dtype_initialise ==
    /\ ret.op = "__init__"
    /\ \E task_param \in DtypeTaskParams :
          initialise_reader(DtypeDataParam, task_param)

DtypeInit == files \in DtypeFiles /\ Constructed(<<>>)
DtypeNext == dtype_initialise \/ shapes \/ dtypes \/ get_input_sources
DtypeSpec == DtypeInit /\ [][DtypeNext]_vars

---------------------------------------------------------------------------
(* Notions the properties share *)

Initialised == output_list # None
Catalog == Val(output_list)
N == Len(Catalog)

\* the data bundle of catalog entry k (counted from 0)
Bundle(k) == [field \in DOMAIN Catalog[k + 1] |->
                 get_data(Catalog[k + 1][field])]

\* the threads that have called layer_op sequentially since the cursor was
\* reset, or are inside such a call
SeqCallers == {seq_log[i].thread : i \in DOMAIN seq_log} \cup
              {t \in Threads : pc[t] \in {"read", "write", "test"}}

\* the k-th sequential call returned what a single consumer is promised
InOrder(k) ==
    IF k <= N
    THEN seq_log[k].idx = Some(k - 1) /\ seq_log[k].data = Some(Bundle(k - 1))
    ELSE seq_log[k].idx = None /\ seq_log[k].data = None

\* index k was returned by a sequential call; it was returned twice; the
\* cursor is past it and no call has returned it
Returned(k) == \E i \in DOMAIN seq_log : seq_log[i].idx = Some(k)
Duplicated(k) == \E i, j \in DOMAIN seq_log :
                    i < j /\ seq_log[i].idx = Some(k) /\ seq_log[j].idx = Some(k)
Skipped(k) == current_id # None /\ Val(current_id) > k /\ ~Returned(k)

\* a step taken by a call to initialise_reader
InitialiseStep ==
    /\ \A t \in Threads : pc[t] = "idle" /\ pc'[t] = "idle"
    /\ ret'.op = "initialise_reader"

\* a step inside (or entering) a shuffled call
ShuffledStep ==
    \E t \in Threads : /\ pc'[t] # pc[t]
                       /\ pc[t] \in {"draw", "fetch"} \/ pc'[t] = "draw"

---------------------------------------------------------------------------
(* C1: sequential access by a single consumer on a freshly initialised     *)
(* reader returns the indices 0, 1, ..., N-1 in that order, each with the  *)
(* data bundle of its catalog entry, and the sentinel (None, None) on call *)
(* N+1 and on every later call; every such call returns (none is lost).    *)
C1_SequentialOrder ==
    Initialised =>
        /\ N >= 1
        /\ \A k \in DOMAIN seq_log : InOrder(k)
        /\ pc[Main] = "idle" => Len(seq_log) = Val(current_id) + 1

\* the catalog has two entries and the consumer has called N + 2 times
C1_Witness ==
    /\ Initialised /\ N = MaxRows
    /\ pc[Main] = "idle" /\ Len(seq_log) = N + 2

---------------------------------------------------------------------------
(* C2: when several threads call sequentially without serialisation, the   *)
(* single-consumer guarantee is lost: an index is returned to two calls,   *)
(* and an index the cursor has passed has been returned to no call (the    *)
(* witness); both happen only once two threads have called sequentially,   *)
(* and an index that is passed and not returned is the local idx of a call *)
(* that has written the cursor back and not yet returned.                  *)
C2_RaceLosesOrder ==
    Initialised =>
        \A k \in 0..(N - 1) :
            /\ Duplicated(k) \/ Skipped(k) => Cardinality(SeqCallers) >= 2
            /\ Skipped(k) => \E t \in Threads :
                                pc[t] = "test" /\ idx[t] = Some(k)

\* index 0 has been returned twice and the cursor is past index 1, which no
\* call has returned
C2_Witness ==
    /\ Initialised /\ N >= 2
    /\ Duplicated(0)
    /\ Skipped(1)

---------------------------------------------------------------------------
(* C3: no step of a shuffled call changes the cursor, the catalog or any   *)
(* other field of the reader, so whatever shuffled calls other threads     *)
(* interleave, a single sequential consumer receives 0, 1, ..., N-1 in     *)
(* order and then the sentinel.                                            *)
C3_ShuffledLeavesCursor ==
    /\ [][ShuffledStep => UNCHANGED <<reader, seq_log>>]_vars
    /\ [](Initialised /\ Cardinality(SeqCallers) <= 1 =>
            \A k \in DOMAIN seq_log : InOrder(k))

\* one thread alone has consumed the whole catalog and the sentinel while
\* two other threads are inside shuffled calls
C3_Witness ==
    /\ Initialised /\ Cardinality(SeqCallers) = 1
    /\ Len(seq_log) = N + 1
    /\ Cardinality({t \in Threads : pc[t] = "fetch"}) >= 2

---------------------------------------------------------------------------
(* C4: on an initialised reader a shuffled call returns an index in        *)
(* 0..N-1 with a data bundle whose keys are the fields of that catalog     *)
(* entry; it never raises and never returns the sentinel, wherever the     *)
(* cursor is.                                                              *)
C4_ShuffledInRange ==
    Initialised /\ ret.op = "layer_op" /\ ret.shuffle =>
        /\ ret.exc = ""
        /\ ret.idx # None /\ ret.data # None
        /\ Val(ret.idx) \in 0..(N - 1)
        /\ Val(ret.data) = Bundle(Val(ret.idx))
        /\ DOMAIN Val(ret.data) = DOMAIN Catalog[Val(ret.idx) + 1]
        /\ DOMAIN Val(ret.data) # {}

\* a shuffled call has returned the last entry after the cursor ran off the
\* end of the catalog
C4_Witness ==
    /\ Initialised /\ ret.op = "layer_op" /\ ret.shuffle
    /\ Val(current_id) >= N
    /\ ret.idx = Some(N - 1)

---------------------------------------------------------------------------
(* What the manifests on disk say, for the properties of the merge *)

Merged == ret.op = "_load_and_merge_csv_files"
InitialiseReturned == ret.op = "initialise_reader"

\* every modality of data_param has its csv file
AllPresent(data_param) ==
    \A m \in Range(data_param.keys) : files[m] # None
Manifest(m) == Val(files[m])
SubjectsIn(m) == {Manifest(m)[i][1] : i \in DOMAIN Manifest(m)}
UniqueSubjects(m) ==
    \A i, j \in DOMAIN Manifest(m) :
        Manifest(m)[i][1] = Manifest(m)[j][1] => i = j
\* the subjects every modality of data_param lists
Common(data_param) ==
    {s \in Subjects : \A m \in Range(data_param.keys) : s \in SubjectsIn(m)}
\* the path modality m's manifest gives for subject s
PathIn(m, s) ==
    Manifest(m)[CHOOSE i \in DOMAIN Manifest(m) : Manifest(m)[i][1] = s][2]

---------------------------------------------------------------------------
(* C5: for manifests with unique subject identifiers and a non-empty       *)
(* common subject set, _load_and_merge_csv_files returns a table with one  *)
(* row per common subject and no other row, whose columns are the          *)
(* modalities in the order read, and whose row for a subject holds in      *)
(* every modality column the path that modality's manifest gives for it.   *)
C5_JoinCorrect ==
    (/\ Merged /\ ret.data_param.keys # <<>>
     /\ AllPresent(ret.data_param)
     /\ \A m \in Range(ret.data_param.keys) : UniqueSubjects(m)
     /\ Common(ret.data_param) # {})
    => /\ ret.exc = ""
       /\ LET df == Val(ret.val)
              keys == ret.data_param.keys
          IN /\ n_rows(df) = Cardinality(Common(ret.data_param))
             /\ {df.rows[i].subject_id : i \in DOMAIN df.rows}
                   = Common(ret.data_param)
             /\ df.columns = keys
             /\ \A i \in DOMAIN df.rows :
                   /\ DOMAIN df.rows[i].cells = Range(keys)
                   /\ \A m \in Range(keys) :
                         df.rows[i].cells[m]
                            = PathIn(m, df.rows[i].subject_id)

\* three manifests were merged into one row, one of them listing a subject
\* the others do not share
C5_Witness ==
    /\ Merged /\ ret.exc = ""
    /\ Len(ret.data_param.keys) = 3
    /\ \A m \in Modalities : UniqueSubjects(m)
    /\ Cardinality(Common(ret.data_param)) = 1
    /\ \E m \in Modalities : Cardinality(SubjectsIn(m)) = 2
    /\ n_rows(Val(ret.val)) = 1

---------------------------------------------------------------------------
(* C6: merging manifests that exist and share no subject fails with        *)
(* IOError, and a table that is returned has at least one row and one      *)
(* modality column.                                                        *)
C6_EmptyManifestFails ==
    Merged =>
        /\ (/\ ret.data_param.keys # <<>>
            /\ AllPresent(ret.data_param)
            /\ Common(ret.data_param) = {}) => ret.exc = "IOError"
        /\ ret.exc = "" => /\ n_rows(Val(ret.val)) >= 1
                           /\ Len(Val(ret.val).columns) >= 1

\* three manifests, the first two sharing a subject the third does not
\* list, failed to merge
C6_Witness ==
    /\ Merged /\ ret.exc = "IOError"
    /\ Len(ret.data_param.keys) = 3
    /\ AllPresent(ret.data_param)
    /\ SubjectsIn(ret.data_param.keys[1]) \cap
       SubjectsIn(ret.data_param.keys[2]) # {}
    /\ Common(ret.data_param) = {}

---------------------------------------------------------------------------
(* C7: when the manifest file of a modality of data_param does not exist,  *)
(* initialise_reader raises IOError and leaves the file list, the output   *)
(* fields, input_sources, the catalog and the cursor as they were.         *)
C7_MissingManifestAborts ==
    [][(/\ InitialiseStep
        /\ \E m \in Range(ret'.data_param.keys) : files[m] = None)
       => /\ ret'.exc = "IOError"
          /\ UNCHANGED <<_file_list, _output_fields, _input_sources,
                         output_list, current_id>>]_vars

\* an initialisation failed on a missing manifest after an earlier one had
\* built a catalog over other modalities and the cursor had advanced
C7_Witness ==
    /\ InitialiseReturned /\ ret.exc = "IOError"
    /\ \E m \in Range(ret.data_param.keys) : files[m] = None
    /\ Initialised /\ Val(current_id) >= 0
    /\ Val(_file_list).columns # ret.data_param.keys

---------------------------------------------------------------------------
(* C8: after a successful initialise_reader the keys of input_sources are  *)
(* exactly the output fields, and every output field maps to the tuple     *)
(* task_param gives it, which is not empty.                                *)
C8_SourcesMatchFields ==
    InitialiseReturned /\ ret.exc = "" =>
        /\ _input_sources # None
        /\ DOMAIN Val(_input_sources) = Range(_output_fields)
        /\ \A field \in Range(_output_fields) :
              /\ Val(_input_sources)[field] = ret.task_param.val[field]
              /\ Val(_input_sources)[field] # <<>>

\* an initialisation resolved two output fields, one of two modalities
C8_Witness ==
    /\ InitialiseReturned /\ ret.exc = ""
    /\ _output_fields = <<"image", "label">>
    /\ Val(_input_sources)["image"] = <<"T2", "T1">>

---------------------------------------------------------------------------
(* C9: after a successful initialise_reader for a recognised application,  *)
(* every output field is one of the application's SUPPORTED_INPUT and has  *)
(* a non-empty tuple in task_param, whether or not the constructor was     *)
(* given output fields.                                                    *)
C9_OnlySupportedFields ==
    (/\ InitialiseReturned /\ ret.exc = ""
     /\ binds_SUPPORTED_INPUT(ret.task_param.name))
    => \A field \in Range(_output_fields) :
          /\ field \in SUPPORTED_INPUT(ret.task_param.name)
          /\ ret.task_param.val[field] # <<>>

---------------------------------------------------------------------------
(* C10: initialise_reader fails for an application name it does not        *)
(* recognise, whether or not the constructor was given output fields: once *)
(* the manifests are merged it raises for the unbound SUPPORTED_INPUT and  *)
(* resolves no field and builds no catalog.                                *)
C10_UnrecognisedKindFails ==
    (/\ InitialiseReturned
     /\ ~binds_SUPPORTED_INPUT(ret.task_param.name)
     /\ _load_and_merge_csv_files(files, ret.data_param).exc = "")
    => ret.exc = "UnboundLocalError"

---------------------------------------------------------------------------
(* What a call to initialise_reader was given and what it resolved *)

Queried(op) == ret.op = op

\* the call just made merged its manifests and got as far as resolving the
\* fields (lines 102-109)
ResolvedStep ==
    /\ InitialiseStep
    /\ ret'.exc \notin {"IOError", "AttributeError", "UnboundLocalError"}

\* a modality of an active field is no key of data_param (and so no column
\* of the merged manifest)
UnknownModality(data_param, sources) ==
    \E field \in DOMAIN sources :
        \E i \in DOMAIN sources[field] :
            sources[field][i] \notin Range(data_param.keys)

---------------------------------------------------------------------------
(* C11: when a modality of an active field is missing from data_param and  *)
(* from the manifest columns, initialise_reader raises KeyError and        *)
(* assigns neither output_list nor current_id; while the reader has no     *)
(* catalog, shapes and dtypes raise RuntimeError.                          *)
C11_UnknownModalityAborts ==
    /\ [][(/\ ResolvedStep
           /\ UnknownModality(ret'.data_param, Val(_input_sources')))
          => /\ ret'.exc = "KeyError"
             /\ UNCHANGED <<output_list, current_id>>]_vars
    /\ [](~Initialised /\ (Queried("shapes") \/ Queried("dtypes"))
            => ret.exc = "RuntimeError" /\ ret.val = None)

\* the first initialisation of the reader failed on an unknown modality,
\* and shapes was then asked for
C11_Witness ==
    /\ Queried("shapes") /\ ret.exc = "RuntimeError"
    /\ ~Initialised /\ current_id = None
    /\ _file_list # None /\ _input_sources # None
    /\ \E field \in DOMAIN Val(_input_sources) :
          \E i \in DOMAIN Val(_input_sources)[field] :
            Val(_input_sources)[field][i] \notin Range(Val(_file_list).columns)

---------------------------------------------------------------------------
(* C12: shapes, dtypes and input_sources raise RuntimeError and return no  *)
(* value as long as no initialise_reader has completed; once one has, they *)
(* do not raise RuntimeError and what they return is a mapping over the    *)
(* output fields.                                                          *)
C12_QueriesNeedInitialisation ==
    Queried("shapes") \/ Queried("dtypes") \/ Queried("input_sources") =>
        IF ~Initialised
        THEN ret.exc = "RuntimeError" /\ ret.val = None
        ELSE /\ ret.exc # "RuntimeError"
             /\ ret.exc = "" => /\ ret.val # None
                                /\ DOMAIN Val(ret.val) = Range(_output_fields)

---------------------------------------------------------------------------
(* C13: after a successful initialise_reader the file list is the merged   *)
(* manifest and the catalog has one entry per row of it, in row order;     *)
(* every entry has exactly the output fields as keys, and the descriptor   *)
(* of a field holds that row's paths for the field's modalities, in the    *)
(* order of the field's tuple, with the interp_order, pixdim and axcodes   *)
(* data_param gives those modalities, and the tuple as its name.           *)
C13_CatalogFollowsManifest ==
    InitialiseReturned /\ ret.exc = "" =>
        LET manifest == Val(_load_and_merge_csv_files(files,
                                                      ret.data_param).val)
            props == ret.data_param.val
        IN /\ _file_list = Some(manifest)
           /\ N = n_rows(manifest)
           /\ \A i \in 1..N :
                 /\ DOMAIN Catalog[i] = Range(_output_fields)
                 /\ \A f \in Range(_output_fields) :
                       LET mods == ret.task_param.val[f]
                           image == Catalog[i][f]
                       IN /\ image.name = mods
                          /\ DOMAIN image.file_path = DOMAIN mods
                          /\ DOMAIN image.interp_order = DOMAIN mods
                          /\ DOMAIN image.output_pixdim = DOMAIN mods
                          /\ DOMAIN image.output_axcodes = DOMAIN mods
                          /\ \A k \in DOMAIN mods :
                                /\ image.file_path[k]
                                      = manifest.rows[i].cells[mods[k]]
                                /\ image.interp_order[k]
                                      = props[mods[k]].interp_order
                                /\ image.output_pixdim[k]
                                      = props[mods[k]].pixdim
                                /\ image.output_axcodes[k]
                                      = props[mods[k]].axcodes

\* a catalog of two fields was built with one entry for each row of the
\* longest manifest, its entries holding the paths of different rows
C13_Witness ==
    /\ InitialiseReturned /\ ret.exc = ""
    /\ N = MaxRows /\ N >= 2
    /\ _output_fields = <<"label", "extra">>
    /\ Catalog[1]["label"].file_path = << <<"T1", 1>> >>
    /\ Catalog[2]["label"].file_path = << <<"T1", 2>> >>

---------------------------------------------------------------------------
(* The element types of the files behind the first catalog entry *)

\* the distinct dtypes the first entry's descriptor of a field reports
CodesOf(field) == {header(p).dtype : p \in Range(Catalog[1][field].file_path)}
KindsOf(field) == {d.kind : d \in CodesOf(field)}
IntegerLike == {"i", "u", "b"}

---------------------------------------------------------------------------
(* C14: the map dtypes returns gives every output field the type of the    *)
(* promotion rule over the dtypes of the first catalog entry: a single     *)
(* dtype of kind i, u or b gives tf.int32, a single dtype of kind f gives  *)
(* tf.float32, and more than one distinct dtype gives tf.float32, also     *)
(* when every one of them is of an integer-like kind.                      *)
C14_DtypePromotion ==
    Queried("dtypes") /\ ret.exc = "" =>
        /\ DOMAIN Val(ret.val) = Range(_output_fields)
        /\ \A field \in Range(_output_fields) :
              LET tf_dtype == Val(ret.val)[field]
              IN /\ Cardinality(CodesOf(field)) = 1 /\
                       KindsOf(field) \subseteq IntegerLike
                       => tf_dtype = Some("tf.int32")
                 /\ Cardinality(CodesOf(field)) = 1 /\ KindsOf(field) = {"f"}
                       => tf_dtype = Some("tf.float32")
                 /\ Cardinality(CodesOf(field)) > 1
                       => tf_dtype = Some("tf.float32")

\* dtypes was read for an image field of two files of different
\* integer-like dtypes and a label field of a single unsigned dtype
C14_Witness ==
    /\ Queried("dtypes") /\ ret.exc = ""
    /\ Cardinality(CodesOf("image")) = 2
    /\ KindsOf("image") \subseteq IntegerLike
    /\ KindsOf("label") = {"u"}
    /\ Val(ret.val)["image"] = Some("tf.float32")
    /\ Val(ret.val)["label"] = Some("tf.int32")

---------------------------------------------------------------------------
(* Steps of the serialised reader *)

\* a step that reads one of the three properties
QueryStep ==
    /\ \A t \in Threads : pc[t] = "idle" /\ pc'[t] = "idle"
    /\ ret'.op \in {"shapes", "dtypes", "input_sources"}

\* the step on which a sequential call returns
SequentialReturn == pc[Main] = "test" /\ pc'[Main] = "idle"

---------------------------------------------------------------------------
(* C15: with one caller, a successful initialise_reader leaves current_id  *)
(* at -1; every sequential call, the ones returning the sentinel included, *)
(* leaves it one higher than it found it; shuffled calls and the three     *)
(* properties leave it alone; no step but initialise_reader lowers it; so  *)
(* after k sequential calls it is k - 1.                                   *)
C15_CursorCountsCalls ==
    /\ [][InitialiseStep /\ ret'.exc = "" => current_id' = Some(-1)]_vars
    /\ [][SequentialReturn =>
            /\ seq_log' = Append(seq_log, seq_log'[Len(seq_log')])
            /\ Val(current_id') = Len(seq_log') - 1]_vars
    /\ [][ShuffledStep \/ QueryStep => UNCHANGED current_id]_vars
    /\ [][~InitialiseStep /\ current_id # None =>
            /\ current_id' # None
            /\ Val(current_id') \in {Val(current_id), Val(current_id) + 1}
         ]_vars
    /\ [](Initialised /\ pc[Main] = "idle" =>
            Val(current_id) = Len(seq_log) - 1)

\* the cursor stands two past the last entry after N + 2 sequential calls,
\* the last two returning the sentinel, and a read of shapes
C15_Witness ==
    /\ Queried("shapes") /\ ret.exc = ""
    /\ Initialised /\ N = MaxRows
    /\ Len(seq_log) = N + 2 /\ Val(current_id) = N + 1
    /\ seq_log[N + 1].idx = None /\ seq_log[N + 2].idx = None

---------------------------------------------------------------------------
(* C16: field resolution is idempotent: an initialise_reader that follows  *)
(* an initialise_reader with the same data_param and the same task_param,  *)
(* on the same reader and over the same manifests, leaves the output       *)
(* fields and input_sources as the first call left them.                   *)
C16_ResolutionIdempotent ==
    [][(/\ InitialiseStep
        /\ ret.op = "initialise_reader"
        /\ ret'.data_param = ret.data_param
        /\ ret'.task_param = ret.task_param)
       => /\ _output_fields' = _output_fields
          /\ _input_sources' = _input_sources]_vars

---------------------------------------------------------------------------
(* The maps of the first catalog entry *)

\* the reader has a catalog whose entries have the output fields as keys,
\* and at least one output field
Sampleable ==
    /\ Initialised
    /\ _output_fields # <<>>
    /\ DOMAIN Catalog[1] = Range(_output_fields)

ShapesOfFirst ==
    [field \in Range(_output_fields) |->
        header(Catalog[1][field].file_path[1]).spatial
            \o <<Len(Catalog[1][field].file_path)>>]
DtypesOfFirst ==
    [field \in Range(_output_fields) |->
        IF Cardinality(CodesOf(field)) > 1 THEN Some("tf.float32")
        ELSE IF KindsOf(field) = {"f"} THEN Some("tf.float32")
        ELSE Some("tf.int32")]

Reads(op) == QueryStep /\ ret'.op = op

---------------------------------------------------------------------------
(* C17: on an initialised reader with an output field, a read of shapes    *)
(* (of dtypes) that finds no memoized map computes it from catalog entry 0 *)
(* and keeps it; a read that finds one returns it as it is; and once kept  *)
(* the map is changed by no step, whatever sequential or shuffled calls    *)
(* are made and wherever the cursor is.                                    *)
C17_MemoizedFromFirstEntry ==
    /\ [][Reads("shapes") /\ Sampleable /\ _shapes = None =>
            /\ ret'.exc = ""
            /\ ret'.val = Some(ShapesOfFirst)
            /\ _shapes' = Some(ShapesOfFirst)]_vars
    /\ [][Reads("dtypes") /\ Sampleable /\ _dtypes = None =>
            /\ ret'.exc = ""
            /\ ret'.val = Some(DtypesOfFirst)
            /\ _dtypes' = Some(DtypesOfFirst)]_vars
    /\ [][Reads("shapes") /\ _shapes # None =>
            ret'.exc = "" /\ ret'.val = _shapes]_vars
    /\ [][Reads("dtypes") /\ _dtypes # None =>
            ret'.exc = "" /\ ret'.val = _dtypes]_vars
    /\ [][/\ _shapes # None => _shapes' = _shapes
          /\ _dtypes # None => _dtypes' = _dtypes]_vars

\* shapes was read with the cursor on the second entry, whose files are of
\* another size than those of the first, and returned the memoized map of
\* the first entry; dtypes is memoized as well
C17_Witness ==
    /\ Queried("shapes") /\ ret.exc = ""
    /\ Sampleable /\ N >= 2 /\ Val(current_id) = 1
    /\ ret.val = _shapes /\ _dtypes # None
    /\ Val(ret.val) = ShapesOfFirst
    /\ \E field \in Range(_output_fields) :
          shape(get_data(Catalog[2][field])) # ShapesOfFirst[field]

---------------------------------------------------------------------------
(* C18: when the fields are resolved and none is left, initialise_reader   *)
(* raises RuntimeError and assigns neither output_list nor current_id; no  *)
(* catalog ever holds an entry that is an empty mapping.                   *)
C18_NoFieldAborts ==
    /\ [][ResolvedStep /\ _output_fields' = <<>> =>
            /\ ret'.exc = "RuntimeError"
            /\ DOMAIN Val(_input_sources') = {}
            /\ UNCHANGED <<output_list, current_id>>]_vars
    /\ [](Initialised => \A i \in 1..N : DOMAIN Catalog[i] # {})

\* an initialisation that resolved no field failed on a reader that keeps
\* the catalog and the cursor of an earlier initialisation
C18_Witness ==
    /\ InitialiseReturned /\ ret.exc = "RuntimeError"
    /\ _output_fields = <<>>
    /\ _input_sources # None /\ DOMAIN Val(_input_sources) = {}
    /\ Initialised /\ Val(current_id) >= 0

---------------------------------------------------------------------------
(* C19: on a reader no initialise_reader has completed on, a call to       *)
(* layer_op in either mode raises (TypeError) and returns neither data nor *)
(* the sentinel, and current_id and output_list stay unset.                *)
C19_UninitialisedCallFails ==
    ~Initialised =>
        /\ current_id = None
        /\ seq_log = <<>>
        /\ ret.op = "layer_op" => ret.exc = "TypeError"

\* a shuffled call has failed on a reader whose initialisation had failed
\* after merging the manifests
C19_Witness ==
    /\ ~Initialised /\ current_id = None
    /\ _file_list # None
    /\ ret.op = "layer_op" /\ ret.shuffle /\ ret.exc = "TypeError"
    /\ pc[Main] = "idle"

---------------------------------------------------------------------------
(* C20: a successful initialise_reader on a reader that has a catalog sets *)
(* the cursor to -1 and installs the catalog of the new merged manifest,   *)
(* wherever the cursor stood; the sequential calls that follow return the  *)
(* indices 0, 1, ... of the new catalog in order, each with its bundle,    *)
(* and the sentinel after the last.                                        *)
C20_ReinitialiseRestarts ==
    /\ [][InitialiseStep /\ ret'.exc = "" /\ Initialised =>
            LET catalog == Val(output_list')
                manifest == Val(_file_list')
                sources == Val(_input_sources')
            IN /\ current_id' = Some(-1)
               /\ Len(catalog) = n_rows(manifest)
               /\ manifest.columns = ret'.data_param.keys
               /\ \A i \in DOMAIN catalog :
                     /\ DOMAIN catalog[i] = DOMAIN sources
                     /\ \A f \in DOMAIN sources :
                           catalog[i][f].file_path =
                              [k \in DOMAIN sources[f] |->
                                  manifest.rows[i].cells[sources[f][k]]]
         ]_vars
    /\ [][SequentialReturn /\ Initialised =>
            LET k == Val(current_id)
            IN IF k < N
               THEN ret'.idx = Some(k) /\ ret'.data = Some(Bundle(k))
               ELSE ret'.idx = None /\ ret'.data = None]_vars
    /\ [](Initialised /\ pc[Main] = "idle" =>
            Val(current_id) = Len(seq_log) - 1)

\* the reader was given a second catalog after the shapes of a first one,
\* of other fields, had been read, and two sequential calls have since
\* returned the entries 0 and 1 of the second catalog
C20_Witness ==
    /\ Initialised /\ N >= 2 /\ pc[Main] = "idle"
    /\ _shapes # None
    /\ DOMAIN Val(_shapes) # Range(_output_fields)
    /\ Val(current_id) = 1 /\ Len(seq_log) = 2
    /\ seq_log[1].idx = Some(0) /\ seq_log[1].data = Some(Bundle(0))
    /\ seq_log[2].idx = Some(1) /\ seq_log[2].data = Some(Bundle(1))

=============================================================================
